---- MODULE Spec2Model ----
(***************************************************************************)
(* vuex-crud: a CrudModule template, its CrudModuleFactory, the modules    *)
(* it creates and the execution of their Actions against a store.          *)
(*                                                                         *)
(* JavaScript runs one job at a time, so an execute call is two atomic     *)
(* steps: everything up to the await of the HTTP call (Start), and         *)
(* everything after the HTTP call settled (Settle).                        *)
(***************************************************************************)
EXTENDS Integers, Sequences, FiniteSets, TLC

VARIABLES heap, modules, store, calls, nconfig

vars == <<heap, modules, store, calls, nconfig>>

(***************************************************************************)
(* Bounds of the model.                                                    *)
(***************************************************************************)
\* execute calls made in one behaviour
MaxCalls == 2
\* modules created and registered in the store in one behaviour
MaxModules == 1
\* configure calls (setters) made on the template in one behaviour
MaxConfig == 2
\* create calls and execute calls of one behaviour of FactorySpec
MaxCreates == 2
FactoryCalls == 1

(***************************************************************************)
(* JavaScript values, tagged so that any two can be compared.              *)
(***************************************************************************)
Undefined == [t |-> "undefined"]
Null == [t |-> "null"]
Bool(b) == [t |-> "bool", v |-> b]
Num(n) == [t |-> "num", v |-> n]
Obj(id, key) == [t |-> "obj", id |-> id, key |-> key]
Arr(s) == [t |-> "arr", v |-> s]
Error(name) == [t |-> "error", name |-> name]
\* a string, as a response body
Text(s) == [t |-> "str", v |-> s]

\* no exception
None == [t |-> "none"]

\* {...a, ...b}: the keys of b win
Spread(a, b) == b @@ a

\* an object with no own property
EmptyObject == [k \in {} |-> Undefined]

\* the values the environment passes as actionData: ids and items
Ids == {Num(1)}
InputItems == {Obj(1, 2)}

\* the response bodies (res.data) the HTTP caller resolves with
Payloads == {Undefined, Obj(1, 2), Arr(<<Obj(1, 1)>>)}

\* the errors the HTTP caller rejects with
NetworkErrors == {Error("NetworkError")}

\* the resources modules are created for
Resources == {"users", "posts"}

\* the resource the template itself was constructed with
TemplateResource == "users"

IdAttributes == {"id", "key"}
AxiosInstances == {"axios", "mockAxios"}
SuccessHandlers == {"noop", "onSuccess"}
ErrorHandlers == {"noop", "onError"}
CustomAPIDefinitions == {"null", "customHook"}

\* the additional state a user declares: nothing; the collection key of
\* users and a key of its own; a loading flag and a current-item key
AdditionalStates ==
  {EmptyObject,
   ("users" :> Arr(<<>>)) @@ ("filter" :> Null),
   ("fetchingUsers" :> Bool(FALSE)) @@ ("currentPost" :> Obj(1, 1))}

\* the additional actions a user declares: nothing; an action under the
\* name of a default one and an action of its own
AdditionalActions ==
  {EmptyObject,
   ("fetchUsers" :> [fn |-> "custom", action |-> "fetchUsers"])
     @@ ("resetUsers" :> [fn |-> "custom", action |-> "resetUsers"])}

(***************************************************************************)
(* Conversions of JavaScript.                                              *)
(***************************************************************************)
\* `${v}` in a template literal
Str(v) ==
  CASE v.t = "num" -> ToString(v.v)
    [] v.t = "undefined" -> "undefined"
    [] v.t = "null" -> "null"
    [] v.t = "bool" -> IF v.v THEN "true" ELSE "false"
    [] v.t = "obj" -> "[object Object]"
    [] v.t = "str" -> v.v
    [] OTHER -> ""

\* Boolean(v)
Truthy(v) ==
  CASE v.t \in {"undefined", "null"} -> FALSE
    [] v.t = "bool" -> v.v
    [] v.t = "num" -> v.v # 0
    [] v.t = "str" -> v.v # ""
    [] OTHER -> TRUE

\* v[attr] throws a TypeError
Nullish(v) == v.t \in {"undefined", "null"}

\* v[attr], for v not nullish
Get(v, attr) ==
  IF v.t = "obj"
    THEN Num(IF attr = "id" THEN v.id ELSE v.key)
    ELSE Undefined

\* a === b; only primitives are ever equal, objects compare by reference
StrictEquals(a, b) ==
  /\ a.t \in {"undefined", "null", "bool", "num", "str"}
  /\ a = b

ToUpperCase(s) ==
  CASE s = "User" -> "USER"
    [] s = "Users" -> "USERS"
    [] s = "Post" -> "POST"
    [] s = "Posts" -> "POSTS"

ToLowerCase(s) ==
  CASE s = "User" -> "user"
    [] s = "Users" -> "users"
    [] s = "Post" -> "post"
    [] s = "Posts" -> "posts"

\* new ResourceName(resource)
ResourceName(resource) ==
  [original |-> resource,
   singular |-> IF resource = "users" THEN "User" ELSE "Post",
   plural |-> IF resource = "users" THEN "Users" ELSE "Posts"]

(***************************************************************************)
(* CrudModule: the object a constructor call leaves on the heap.  A heap   *)
(* object is named by its index; generateAxiosRequestConfig is an arrow    *)
(* function, so its field holds the object that was `this` when the        *)
(* constructor ran.                                                        *)
(***************************************************************************)
NewCrudModule(self, resource) ==
  [resourceName |-> ResourceName(resource),
   generateAxiosRequestConfig |-> self,
   customAPIDefinition |-> "null",
   idAttribute |-> "id",
   axios |-> "axios",
   additionalActions |-> EmptyObject,
   additionalState |-> EmptyObject,
   commitState |-> TRUE,
   handleActionSuccess |-> "noop",
   handleActionError |-> "noop"]

\* the template is the first object of the heap
Instance == 1

\* get states()
States(o) ==
  [items |-> ToLowerCase(o.resourceName.plural),
   currentItem |-> "current" \o o.resourceName.singular]

\* get mutations()
Mutations(o) ==
  [setItems |-> "SET_" \o ToUpperCase(o.resourceName.plural),
   setCurrentItem |-> "SET_CURRENT_" \o ToUpperCase(o.resourceName.singular),
   addItem |-> "ADD_" \o ToUpperCase(o.resourceName.singular),
   updateItem |-> "UPDATE_" \o ToUpperCase(o.resourceName.singular),
   deleteItem |-> "DELETE_" \o ToUpperCase(o.resourceName.singular)]

\* get config()
Config(o) ==
  [generateAxiosRequestConfig |-> o.generateAxiosRequestConfig,
   resourceName |-> o.resourceName,
   axios |-> o.axios,
   commitState |-> o.commitState,
   handleActionSuccess |-> o.handleActionSuccess,
   handleActionError |-> o.handleActionError]

\* new ActionFactory(config).create(...): an Action over the module's config
ActionFactoryCreate(config, loadingMutation, mutationName, actionName, actionType) ==
  [loadingMutation |-> loadingMutation,
   mutationName |-> mutationName,
   actionName |-> actionName,
   actionType |-> actionType] @@ config

\* get actions(): the five default Actions of a module
Actions(o) ==
  LET sing == o.resourceName.singular
      plur == o.resourceName.plural
  IN <<ActionFactoryCreate(Config(o),
         [name |-> "SET_FETCHING_" \o ToUpperCase(plur), state |-> "fetching" \o plur],
         Mutations(o).setItems, "fetch" \o plur, "fetchItems"),
       ActionFactoryCreate(Config(o),
         [name |-> "SET_GETTING_" \o ToUpperCase(sing), state |-> "getting" \o sing],
         Mutations(o).setCurrentItem, "get" \o sing, "getItem"),
       ActionFactoryCreate(Config(o),
         [name |-> "SET_CREATING_" \o ToUpperCase(sing), state |-> "creating" \o sing],
         Mutations(o).addItem, "create" \o sing, "createItem"),
       ActionFactoryCreate(Config(o),
         [name |-> "SET_UPDATING_" \o ToUpperCase(sing), state |-> "updating" \o sing],
         Mutations(o).updateItem, "update" \o sing, "updateItem"),
       ActionFactoryCreate(Config(o),
         [name |-> "SET_DELETING_" \o ToUpperCase(sing), state |-> "deleting" \o sing],
         Mutations(o).deleteItem, "delete" \o sing, "deleteItem")>>

\* a state getter that initialises the loading flag to false
ActionStateFalse(a) == (a.loadingMutation.state :> Bool(FALSE))

\* Action: get state()
ActionState(a) == (a.loadingMutation.state :> Null)

\* Action: get actions(); the function stored runs execute on this Action
ActionActions(a) == (a.actionName :> [fn |-> "execute", action |-> a])

\* Action: get mutations(); the handler writes the Action's loading flag
ActionMutations(a) ==
  (a.loadingMutation.name :> [h |-> "loading", state |-> a.loadingMutation.state])

\* Object.assign over the slices of the five Actions, in order
RECURSIVE AssignAll(_, _)
AssignAll(slices, n) ==
  IF n = 0 THEN EmptyObject ELSE Spread(AssignAll(slices, n - 1), slices[n])

\* buildActions()
BuildActions(o) ==
  Spread(AssignAll([i \in 1..5 |-> ActionActions(Actions(o)[i])], 5),
         o.additionalActions)

\* a buildState in which the default keys win over the declared ones
BuildStateDefaultsWin(o) ==
  Spread(o.additionalState,
         Spread(AssignAll([i \in 1..5 |-> ActionState(Actions(o)[i])], 5),
                (States(o).items :> Null) @@ (States(o).currentItem :> Null)))

\* buildState()
BuildState(o) ==
  Spread(Spread(AssignAll([i \in 1..5 |-> ActionState(Actions(o)[i])], 5),
                (States(o).items :> Null) @@ (States(o).currentItem :> Null)),
         o.additionalState)

\* buildMutations(); the five handlers are closures over the object `self`
BuildMutations(o, self) ==
  Spread(AssignAll([i \in 1..5 |-> ActionMutations(Actions(o)[i])], 5),
         (Mutations(o).setItems :> [h |-> "setItems", self |-> self])
         @@ (Mutations(o).setCurrentItem :> [h |-> "setCurrentItem", self |-> self])
         @@ (Mutations(o).addItem :> [h |-> "addItem", self |-> self])
         @@ (Mutations(o).updateItem :> [h |-> "updateItem", self |-> self])
         @@ (Mutations(o).deleteItem :> [h |-> "deleteItem", self |-> self]))

\* getModule()
GetModule(o, self) ==
  [namespaced |-> TRUE,
   state |-> BuildState(o),
   actions |-> BuildActions(o),
   mutations |-> BuildMutations(o, self),
   getters |-> EmptyObject]

\* An Action of a kind outside CrudAction, built over the module's config
\* and registered in the store next to the module's own five.
ExtraAction(o) ==
  ActionFactoryCreate(Config(o),
    [name |-> "SET_PATCHING_" \o ToUpperCase(o.resourceName.singular),
     state |-> "patching" \o o.resourceName.singular],
    Mutations(o).updateItem, "patch" \o o.resourceName.singular, "patchItem")

\* what the store holds for a created module: the descriptor getModule
\* returned, the object it was built on and the extra Action
Registered(o, self) ==
  [module |-> GetModule(o, self), self |-> self, extra |-> ExtraAction(o)]

\* the actions and the mutations a registered module answers to
ActionsOf(reg) == Spread(ActionActions(reg.extra), reg.module.actions)
MutationsOf(reg) == Spread(ActionMutations(reg.extra), reg.module.mutations)

\* the state the store starts a created module with
InitialState(o, self) == Spread(ActionState(ExtraAction(o)), GetModule(o, self).state)

\* a create that names the resource on the template itself and builds the
\* module from it, instead of from a copy
FactoryCreateOnInstance(h, resource) ==
  [heap |-> [h EXCEPT ![Instance].resourceName = ResourceName(resource)],
   self |-> Instance]

\* CrudModuleFactory.create: the heap and the object getModule runs on
FactoryCreate(h, resource) ==
  LET obj == [h[Instance] EXCEPT !.resourceName = ResourceName(resource)]
  IN [heap |-> Append(h, obj), self |-> Len(h) + 1]

(***************************************************************************)
(* The store: state objects and the mutation handlers of buildMutations.   *)
(***************************************************************************)
\* state[key]
Read(st, key) == IF key \in DOMAIN st THEN st[key] ELSE Undefined

\* state[key] = value
Write(st, key, value) == (key :> value) @@ st

\* findIndex(e => e[attr] === data[attr]) from position i on: the index
\* found (0 for -1), or the TypeError of reading a property of a nullish value
RECURSIVE FindIndex(_, _, _, _)
FindIndex(arr, data, attr, i) ==
  IF i > Len(arr) THEN [index |-> 0, thrown |-> None]
  ELSE IF Nullish(arr[i]) \/ Nullish(data)
    THEN [index |-> 0, thrown |-> Error("TypeError")]
  ELSE IF StrictEquals(Get(arr[i], attr), Get(data, attr))
    THEN [index |-> i, thrown |-> None]
  ELSE FindIndex(arr, data, attr, i + 1)

\* filter(e => e[attr] !== actionData)
RECURSIVE Filter(_, _, _)
Filter(arr, actionData, attr) ==
  IF arr = <<>> THEN [value |-> <<>>, thrown |-> None]
  ELSE IF Nullish(Head(arr)) THEN [value |-> <<>>, thrown |-> Error("TypeError")]
  ELSE LET rest == Filter(Tail(arr), actionData, attr)
       IN IF rest.thrown # None THEN rest
          ELSE IF StrictEquals(Get(Head(arr), attr), actionData) THEN rest
          ELSE [value |-> <<Head(arr)>> \o rest.value, thrown |-> None]

\* The Action's loading mutation.
LoadingMutation(handler, st, payload) ==
  [state |-> Write(st, handler.state, Bool(Truthy(payload.data))), thrown |-> None]

SetItemsMutation(o, st, payload) ==
  [state |-> Write(st, States(o).items, payload.data), thrown |-> None]

\* a set-current-item that writes the collection state too
SetCurrentItemAndItems(o, st, payload) ==
  [state |-> Write(Write(st, States(o).currentItem, payload.data),
                   States(o).items, payload.data),
   thrown |-> None]

SetCurrentItemMutation(o, st, payload) ==
  [state |-> Write(st, States(o).currentItem, payload.data), thrown |-> None]

AddItemMutation(o, st, payload) ==
  LET key == States(o).items
      s1 == IF ~Truthy(Read(st, key)) THEN Write(st, key, Arr(<<>>)) ELSE st
  IN IF Read(s1, key).t = "arr"
       THEN [state |-> Write(s1, key, Arr(Append(Read(s1, key).v, payload.data))),
             thrown |-> None]
       ELSE [state |-> s1, thrown |-> Error("StateNotArray")]

\* an update-item that appends the payload when no element matches
UpdateItemUpsert(o, st, payload) ==
  LET key == States(o).items
      cur == Read(st, key)
  IN IF cur.t = "arr"
       THEN LET found == FindIndex(cur.v, payload.data, o.idAttribute, 1)
            IN IF found.thrown # None THEN [state |-> st, thrown |-> found.thrown]
               ELSE IF found.index # 0
                 THEN [state |-> Write(st, key,
                                   Arr([cur.v EXCEPT ![found.index] = payload.data])),
                       thrown |-> None]
               ELSE [state |-> Write(st, key, Arr(Append(cur.v, payload.data))),
                     thrown |-> None]
       ELSE [state |-> st, thrown |-> Error("StateNotArray")]

UpdateItemMutation(o, st, payload) ==
  LET key == States(o).items
      cur == Read(st, key)
  IN IF cur.t = "arr"
       THEN LET found == FindIndex(cur.v, payload.data, o.idAttribute, 1)
            IN IF found.thrown # None THEN [state |-> st, thrown |-> found.thrown]
               ELSE IF found.index # 0
                 THEN [state |-> Write(st, key,
                                   Arr([cur.v EXCEPT ![found.index] = payload.data])),
                       thrown |-> None]
               ELSE [state |-> st, thrown |-> None]
       ELSE [state |-> st, thrown |-> Error("StateNotArray")]

\* a delete-item that filters on the response payload
DeleteItemByResponse(o, st, payload) ==
  LET key == States(o).items
      cur == Read(st, key)
  IN IF cur.t = "arr"
       THEN LET kept == Filter(cur.v, payload.data, o.idAttribute)
            IN IF kept.thrown # None THEN [state |-> st, thrown |-> kept.thrown]
               ELSE [state |-> Write(st, key, Arr(kept.value)), thrown |-> None]
       ELSE [state |-> st, thrown |-> None]

DeleteItemMutation(o, st, payload) ==
  LET key == States(o).items
      cur == Read(st, key)
  IN IF cur.t = "arr"
       THEN LET kept == Filter(cur.v, payload.actionData, o.idAttribute)
            IN IF kept.thrown # None THEN [state |-> st, thrown |-> kept.thrown]
               ELSE [state |-> Write(st, key, Arr(kept.value)), thrown |-> None]
       ELSE [state |-> st, thrown |-> None]

\* commit(type, payload) on a module of the store: the state after the
\* handler ran and what the handler threw.  The five default handlers read
\* the fields of their CrudModule object when they run.
Commit(h, reg, st, type, payload) ==
  LET handler == MutationsOf(reg)[type]
  IN CASE handler.h = "loading" -> LoadingMutation(handler, st, payload)
       [] handler.h = "setItems" -> SetItemsMutation(h[handler.self], st, payload)
       [] handler.h = "setCurrentItem" -> SetCurrentItemMutation(h[handler.self], st, payload)
       [] handler.h = "addItem" -> AddItemMutation(h[handler.self], st, payload)
       [] handler.h = "updateItem" -> UpdateItemMutation(h[handler.self], st, payload)
       [] handler.h = "deleteItem" -> DeleteItemMutation(h[handler.self], st, payload)

(***************************************************************************)
(* Request descriptors.                                                    *)
(***************************************************************************)
\* dataMapper / stateMapper applied to a response body.  "identity" is the
\* default e => e; the hook below installs e => e[0] and e => e[0].key,
\* which throw a TypeError where they read a property of a nullish value.
ApplyMapper(mapper, v) ==
  LET first == IF v.t = "arr" /\ v.v # <<>> THEN v.v[1] ELSE Undefined
  IN CASE mapper = "identity" -> [value |-> v, thrown |-> None]
       [] mapper = "first" ->
            IF Nullish(v) THEN [value |-> Undefined, thrown |-> Error("TypeError")]
            ELSE [value |-> first, thrown |-> None]
       [] mapper = "firstKey" ->
            IF Nullish(v) \/ Nullish(first)
              THEN [value |-> Undefined, thrown |-> Error("TypeError")]
              ELSE [value |-> Get(first, "key"), thrown |-> None]

\* The custom API definition a user installs: it moves the request under
\* /api, adds query params and replaces both mappers.
CustomAPIDefinition(definition, resource, action, actionData) ==
  [definition EXCEPT !.url = "/api" \o @,
                     !.params = [t |-> "params", resource |-> resource, action |-> action,
                                 actionData |-> actionData],
                     !.stateMapper = "first",
                     !.dataMapper = "firstKey"]

\* a partial definition that takes an unknown action for a fetch
PartialDefinitionLenient(this, resource, action, actionData) ==
  LET partial(method, url, data) ==
        [partial |-> [method |-> method, url |-> url, params |-> Undefined,
                      data |-> data],
         thrown |-> None]
  IN CASE action = "getItem" ->
            partial("GET", "/" \o resource \o "/" \o Str(actionData), Undefined)
       [] action = "createItem" -> partial("POST", "/" \o resource, actionData)
       [] action = "deleteItem" ->
            partial("DELETE", "/" \o resource \o "/" \o Str(actionData), Undefined)
       [] action = "updateItem" ->
            IF Nullish(actionData) THEN [partial |-> Undefined, thrown |-> Error("TypeError")]
            ELSE partial("PUT",
                   "/" \o resource \o "/" \o Str(Get(actionData, this.idAttribute)),
                   actionData)
       [] OTHER -> partial("GET", "/" \o resource, Undefined)

\* a partial definition whose update-item URL ends with the input itself
PartialDefinitionByInput(this, resource, action, actionData) ==
  LET partial(method, url, data) ==
        [partial |-> [method |-> method, url |-> url, params |-> Undefined,
                      data |-> data],
         thrown |-> None]
  IN CASE action = "fetchItems" -> partial("GET", "/" \o resource, Undefined)
       [] action = "getItem" ->
            partial("GET", "/" \o resource \o "/" \o Str(actionData), Undefined)
       [] action = "createItem" -> partial("POST", "/" \o resource, actionData)
       [] action = "deleteItem" ->
            partial("DELETE", "/" \o resource \o "/" \o Str(actionData), Undefined)
       [] action = "updateItem" ->
            IF Nullish(actionData) THEN [partial |-> Undefined, thrown |-> Error("TypeError")]
            ELSE partial("PUT", "/" \o resource \o "/" \o Str(actionData), actionData)
       [] OTHER -> [partial |-> Undefined, thrown |-> Error("InvalidAction")]

\* the if-else chain of generateAxiosRequestConfig: the partial definition
\* of an action, or what the chain throws
PartialDefinition(this, resource, action, actionData) ==
  LET partial(method, url, data) ==
        [partial |-> [method |-> method, url |-> url, params |-> Undefined,
                      data |-> data],
         thrown |-> None]
  IN CASE action = "fetchItems" -> partial("GET", "/" \o resource, Undefined)
       [] action = "getItem" ->
            partial("GET", "/" \o resource \o "/" \o Str(actionData), Undefined)
       [] action = "createItem" -> partial("POST", "/" \o resource, actionData)
       [] action = "deleteItem" ->
            partial("DELETE", "/" \o resource \o "/" \o Str(actionData), Undefined)
       [] action = "updateItem" ->
            IF Nullish(actionData) THEN [partial |-> Undefined, thrown |-> Error("TypeError")]
            ELSE partial("PUT",
                   "/" \o resource \o "/" \o Str(Get(actionData, this.idAttribute)),
                   actionData)
       [] OTHER -> [partial |-> Undefined, thrown |-> Error("InvalidAction")]

\* a generator that returns the default definition whatever hook is set
GenerateDefaultOnly(this, resource, action, actionData) ==
  LET made == PartialDefinition(this, resource, action, actionData)
      definition == [dataMapper |-> "identity", stateMapper |-> "identity"]
                      @@ made.partial
  IN IF made.thrown # None THEN [definition |-> Undefined, thrown |-> made.thrown]
     ELSE [definition |-> definition, thrown |-> None]

\* this.generateAxiosRequestConfig(resource, action, actionData), with
\* `this` the fields of the object the arrow function closed over
GenerateAxiosRequestConfig(this, resource, action, actionData) ==
  LET made == PartialDefinition(this, resource, action, actionData)
      definition == [dataMapper |-> "identity", stateMapper |-> "identity"]
                      @@ made.partial
  IN IF made.thrown # None THEN [definition |-> Undefined, thrown |-> made.thrown]
     ELSE IF this.customAPIDefinition = "null"
       THEN [definition |-> definition, thrown |-> None]
     ELSE [definition |-> CustomAPIDefinition(definition, resource, action, actionData),
           thrown |-> None]

(***************************************************************************)
(* Action.execute.                                                         *)
(***************************************************************************)
CommitEvent(type, payload, thrown) ==
  [e |-> "commit", type |-> type, data |-> payload.data,
   actionData |-> payload.actionData, thrown |-> thrown]

HttpEvent(axios, req) ==
  [e |-> "http", axios |-> axios, method |-> req.method, url |-> req.url,
   params |-> req.params, data |-> req.data]

HandlerEvent(which, handler, actionType, value, resource, threw) ==
  [e |-> which, handler |-> handler, args |-> <<actionType, value, resource>>,
   threw |-> threw]

\* what a handler does when called: the default () => {} returns, a handler
\* the user installed returns or throws
HandlerThrows(handler, throws) == handler # "noop" /\ throws

\* whether a call of the handler throws, as the environment decides
HandlerOutcomes(handler) == IF handler = "noop" THEN {FALSE} ELSE BOOLEAN

Resolved(v) == [t |-> "resolved", value |-> v]
Rejected(err) == [t |-> "rejected", error |-> err]

\* execute up to the await: lines 29-35.  The loading flag is committed,
\* the request descriptor generated and the HTTP call issued.
ExecuteStart(h, reg, st, a, actionData) ==
  LET load == [data |-> Bool(TRUE), actionData |-> Undefined]
      c1 == Commit(h, reg, st, a.loadingMutation.name, load)
      gen == GenerateAxiosRequestConfig(h[a.generateAxiosRequestConfig],
               a.resourceName.original, a.actionType, actionData)
      log1 == <<CommitEvent(a.loadingMutation.name, load, None)>>
  IN IF gen.thrown # None
       THEN [state |-> c1.state, log |-> log1, awaiting |-> FALSE,
             req |-> Undefined, outcome |-> Rejected(gen.thrown)]
       ELSE [state |-> c1.state,
             log |-> Append(log1, HttpEvent(a.axios, gen.definition)),
             awaiting |-> TRUE, req |-> gen.definition, outcome |-> Undefined]

\* a try block that commits the primary mutation whatever commitState is
ExecuteTryAlwaysCommits(h, reg, st, a, req, actionData, res, successThrows) ==
  IF ~res.ok
    THEN [state |-> st, log |-> <<>>, thrown |-> res.error, value |-> Undefined]
  ELSE
    LET mapped == ApplyMapper(req.stateMapper, res.data)
        payload == [data |-> mapped.value, actionData |-> actionData]
        com == Commit(h, reg, st, a.mutationName, payload)
    IN [state |-> com.state,
        log |-> <<CommitEvent(a.mutationName, payload, com.thrown),
                  HandlerEvent("success", a.handleActionSuccess, a.actionType,
                               mapped.value, a.resourceName.original, FALSE)>>,
        thrown |-> None,
        value |-> ApplyMapper(req.dataMapper, res.data).value]

\* the try block after the await: lines 35-43
ExecuteTry(h, reg, st, a, req, actionData, res, successThrows) ==
  IF ~res.ok
    THEN [state |-> st, log |-> <<>>, thrown |-> res.error, value |-> Undefined]
  ELSE
    LET mapped == ApplyMapper(req.stateMapper, res.data)
        payload == [data |-> mapped.value, actionData |-> actionData]
        com == IF a.commitState /\ mapped.thrown = None
                 THEN Commit(h, reg, st, a.mutationName, payload)
                 ELSE [state |-> st, thrown |-> None]
        comLog == IF a.commitState /\ mapped.thrown = None
                    THEN <<CommitEvent(a.mutationName, payload, com.thrown)>>
                    ELSE <<>>
        okLog == Append(comLog, HandlerEvent("success", a.handleActionSuccess,
                          a.actionType, mapped.value, a.resourceName.original,
                          HandlerThrows(a.handleActionSuccess, successThrows)))
        ret == ApplyMapper(req.dataMapper, res.data)
    IN IF mapped.thrown # None
         THEN [state |-> st, log |-> <<>>, thrown |-> mapped.thrown, value |-> Undefined]
       ELSE IF com.thrown # None
         THEN [state |-> com.state, log |-> comLog, thrown |-> com.thrown,
               value |-> Undefined]
       ELSE IF HandlerThrows(a.handleActionSuccess, successThrows)
         THEN [state |-> com.state, log |-> okLog,
               thrown |-> Error("SuccessHandlerError"), value |-> Undefined]
       ELSE IF ret.thrown # None
         THEN [state |-> com.state, log |-> okLog, thrown |-> ret.thrown,
               value |-> Undefined]
       ELSE [state |-> com.state, log |-> okLog, thrown |-> None, value |-> ret.value]

\* a catch block that reports the error and raises it again
ExecuteCatchRethrows(a, try, errorThrows) ==
  IF try.thrown = None
    THEN [log |-> <<>>, outcome |-> Resolved(try.value)]
    ELSE [log |-> <<HandlerEvent("error", a.handleActionError, a.actionType,
                                 try.thrown, a.resourceName.original, FALSE)>>,
          outcome |-> Rejected(try.thrown)]

\* the catch block: lines 44-45
ExecuteCatch(a, try, errorThrows) ==
  IF try.thrown = None
    THEN [log |-> <<>>, outcome |-> Resolved(try.value)]
  ELSE
    LET ev == HandlerEvent("error", a.handleActionError, a.actionType,
                           try.thrown, a.resourceName.original,
                           HandlerThrows(a.handleActionError, errorThrows))
    IN IF HandlerThrows(a.handleActionError, errorThrows)
         THEN [log |-> <<ev>>, outcome |-> Rejected(Error("ErrorHandlerError"))]
         ELSE [log |-> <<ev>>, outcome |-> Resolved(Undefined)]

\* an execute without its finally block
ExecuteFinallyMissing(h, reg, st, a) == [state |-> st, log |-> <<>>]

\* the finally block: lines 46-48
ExecuteFinally(h, reg, st, a) ==
  LET load == [data |-> Bool(FALSE), actionData |-> Undefined]
  IN [state |-> Commit(h, reg, st, a.loadingMutation.name, load).state,
      log |-> <<CommitEvent(a.loadingMutation.name, load, None)>>]

\* execute after the await: try, catch, finally
ExecuteSettle(h, reg, st, a, req, actionData, res, successThrows, errorThrows) ==
  LET try == ExecuteTry(h, reg, st, a, req, actionData, res, successThrows)
      catch == ExecuteCatch(a, try, errorThrows)
      fin == ExecuteFinally(h, reg, try.state, a)
  IN [state |-> fin.state,
      log |-> try.log \o catch.log \o fin.log,
      outcome |-> catch.outcome]

\* the actionData the environment passes to an action of a kind
ActionData(actionType) ==
  CASE actionType \in {"getItem", "deleteItem"} -> Ids
    [] actionType = "createItem" -> InputItems
    [] actionType = "updateItem" -> InputItems \cup {Undefined}
    [] OTHER -> {Undefined}

\* how the HTTP call settles: resolved with a body, or rejected
ResponsesOf(bodies) ==
  {[ok |-> TRUE, data |-> d, error |-> None] : d \in bodies}
  \cup {[ok |-> FALSE, data |-> Undefined, error |-> e] : e \in NetworkErrors}

Responses == ResponsesOf(Payloads)

(***************************************************************************)
(* Actions of the model.                                                   *)
(***************************************************************************)
IdleCall == [pc |-> "idle"]

Init ==
  /\ heap = <<NewCrudModule(Instance, TemplateResource)>>
  /\ modules = <<>>
  /\ store = <<>>
  /\ calls = [c \in 1..MaxCalls |-> IdleCall]
  /\ nconfig = 0

\* a setter of the template; a call that sets the value the field already
\* holds changes nothing and is left out
Configure(field, value) ==
  /\ nconfig < MaxConfig
  /\ heap[Instance][field] # value
  /\ nconfig' = nconfig + 1
  /\ heap' = [heap EXCEPT ![Instance] = [@ EXCEPT ![field] = value]]
  /\ UNCHANGED <<modules, store, calls>>

SetAxios == \E v \in AxiosInstances : Configure("axios", v)

SetIdAttribute == \E v \in IdAttributes : Configure("idAttribute", v)

SetCommitState == \E v \in BOOLEAN : Configure("commitState", v)

SetCustomAPIDefinition ==
  \E v \in CustomAPIDefinitions \ {"null"} : Configure("customAPIDefinition", v)

OnActionSuccess == \E v \in SuccessHandlers : Configure("handleActionSuccess", v)

OnActionError == \E v \in ErrorHandlers : Configure("handleActionError", v)

SetAdditionalActions == \E v \in AdditionalActions : Configure("additionalActions", v)

SetAdditionalState == \E v \in AdditionalStates : Configure("additionalState", v)

Create(limit) ==
  \E resource \in Resources :
    /\ Len(modules) < limit
    /\ LET r == FactoryCreate(heap, resource)
       IN /\ heap' = r.heap
          /\ modules' = Append(modules, Registered(r.heap[r.self], r.self))
          /\ store' = Append(store, InitialState(r.heap[r.self], r.self))
    /\ UNCHANGED <<calls, nconfig>>

\* dispatch of an action of a module: execute runs up to its await
Start(limit) ==
  \E c \in 1..limit, m \in 1..Len(modules) :
    \E name \in DOMAIN ActionsOf(modules[m]) :
      /\ calls[c].pc = "idle"
      /\ \A b \in 1..(c - 1) : calls[b].pc # "idle"
      /\ ActionsOf(modules[m])[name].fn = "execute"
      /\ LET a == ActionsOf(modules[m])[name].action
         IN \E actionData \in ActionData(a.actionType) :
              LET r == ExecuteStart(heap, modules[m], store[m], a, actionData)
              IN /\ store' = [store EXCEPT ![m] = r.state]
                 /\ calls' = [calls EXCEPT ![c] =
                      [pc |-> IF r.awaiting THEN "awaiting" ELSE "done",
                       m |-> m, action |-> a, actionData |-> actionData,
                       req |-> r.req, res |-> Undefined, log |-> r.log,
                       outcome |-> r.outcome]]
      /\ UNCHANGED <<heap, modules, nconfig>>

\* the HTTP call of a pending execute settles and execute runs to its end
SettleWith(responses) ==
  \E c \in 1..MaxCalls :
    /\ calls[c].pc = "awaiting"
    /\ \E res \in responses,
          successThrows \in HandlerOutcomes(calls[c].action.handleActionSuccess),
          errorThrows \in HandlerOutcomes(calls[c].action.handleActionError) :
         LET call == calls[c]
             r == ExecuteSettle(heap, modules[call.m], store[call.m], call.action,
                                call.req, call.actionData, res, successThrows,
                                errorThrows)
         IN /\ store' = [store EXCEPT ![call.m] = r.state]
            /\ calls' = [calls EXCEPT ![c] =
                 [call EXCEPT !.pc = "done", !.res = res,
                              !.log = call.log \o r.log, !.outcome = r.outcome]]
    /\ UNCHANGED <<heap, modules, nconfig>>

Settle == SettleWith(Responses)

Configuration ==
  \/ SetAxios
  \/ SetIdAttribute
  \/ SetCommitState
  \/ SetCustomAPIDefinition
  \/ OnActionSuccess
  \/ OnActionError

\* one module in the store, executes interleaved
Next ==
  \/ Start(MaxCalls)
  \/ Settle
  \/ Configuration
  \/ Create(MaxModules)

Spec == Init /\ [][Next]_vars

\* several modules created from one template
FactoryNext ==
  \/ Start(FactoryCalls)
  \/ Settle
  \/ Configuration
  \/ Create(MaxCreates)

FactorySpec == Init /\ [][FactoryNext]_vars

\* the response bodies of the behaviours that exercise the mutations: items,
\* a collection in which two items share an id and two share a key, and the
\* empty string of a response without a body
MutationBodies ==
  {Obj(1, 2), Obj(3, 1), Text(""), Arr(<<Obj(1, 1), Obj(2, 1), Obj(1, 3)>>)}

MutationSettle == SettleWith(ResponsesOf(MutationBodies))

\* one module whose collection is fetched, then added to, updated or
\* deleted from, for either id attribute
MutationNext ==
  \/ Start(MaxCalls)
  \/ MutationSettle
  \/ SetIdAttribute
  \/ Create(MaxModules)

MutationSpec == Init /\ [][MutationNext]_vars

\* modules built from a template with additional actions and state declared
BuilderNext ==
  \/ SetAdditionalActions
  \/ SetAdditionalState
  \/ Configuration
  \/ Create(MaxCreates)

BuilderSpec == Init /\ [][BuilderNext]_vars
(***************************************************************************)
(* Vocabulary of the properties.                                           *)
(***************************************************************************)
CallIds == 1..MaxCalls

Started(c) == calls[c].pc # "idle"
Awaiting(c) == calls[c].pc = "awaiting"
Done(c) == calls[c].pc = "done"

\* the HTTP call of the execute has resolved or rejected
Settled(c) == Done(c) /\ calls[c].res # Undefined
HttpOk(c) == Settled(c) /\ calls[c].res.ok
HttpFailed(c) == Settled(c) /\ ~calls[c].res.ok

IsLoadingCommit(call, ev, b) ==
  /\ ev.e = "commit"
  /\ ev.type = call.action.loadingMutation.name
  /\ ev.data = Bool(b)

IsPrimaryCommit(call, ev) ==
  /\ ev.e = "commit"
  /\ ev.type = call.action.mutationName

\* the positions of the log of a call that hold an event of a kind
EventsOf(call, kind) == {i \in 1..Len(call.log) : call.log[i].e = kind}
PrimaryCommits(call) == {i \in 1..Len(call.log) : IsPrimaryCommit(call, call.log[i])}

\* the loading flag of the action of a call, in a store
FlagIn(st, call) == Read(st[call.m], call.action.loadingMutation.state)

\* the collection state and the current-item state of the module of a call
ResourceStateIn(st, call) ==
  LET o == heap[modules[call.m].self]
  IN <<Read(st[call.m], States(o).items), Read(st[call.m], States(o).currentItem)>>

\* two calls run the same action of the same module
SameAction(a, b) ==
  /\ a.m = b.m
  /\ a.action.loadingMutation = b.action.loadingMutation

StartsIn(c) == calls[c].pc = "idle" /\ calls'[c].pc # "idle"
SettlesIn(c) == calls[c].pc = "awaiting" /\ calls'[c].pc = "done"

DefaultKinds == {"fetchItems", "getItem", "createItem", "updateItem", "deleteItem"}

(***************************************************************************)
(* C1                                                                      *)
(***************************************************************************)
\* C1: every execute call that committed its loading flag true and has
\* completed made, as its last commit, the commit of the loading flag false,
\* whatever its later steps did.
C1_LoadingReleased ==
  \A c \in CallIds :
    (Done(c) /\ \E i \in 1..Len(calls[c].log) : IsLoadingCommit(calls[c], calls[c].log[i], TRUE))
      => IsLoadingCommit(calls[c], calls[c].log[Len(calls[c].log)], FALSE)

(***************************************************************************)
(* C2                                                                      *)
(***************************************************************************)
\* C2 as stated: for every execute call that issues its HTTP call, in any
\* interleaving, the loading flag of its action is true while the HTTP call
\* is pending and false once the call has completed.
C2_LoadingTrueWhileInFlight ==
  \A c \in CallIds :
    /\ Awaiting(c) => FlagIn(store, calls[c]) = Bool(TRUE)
    /\ Settled(c) => FlagIn(store, calls[c]) = Bool(FALSE)

\* C2 amended: the loading flag is last-write-wins among the executes of
\* one action.  It is true when an execute has started; while an execute is
\* pending it stays true until the HTTP call of that execute or of another
\* execute of the same action settles; it is false when an execute that
\* issued its HTTP call completes, and it then stays false until an execute
\* of the same action starts.
C2_LoadingLastWriteWins ==
  [][\A c \in CallIds :
       /\ StartsIn(c) => FlagIn(store', calls'[c]) = Bool(TRUE)
       /\ SettlesIn(c) => FlagIn(store', calls'[c]) = Bool(FALSE)
       /\ (Awaiting(c) /\ calls'[c].pc = "awaiting"
             /\ FlagIn(store, calls[c]) = Bool(TRUE)
             /\ FlagIn(store', calls[c]) # Bool(TRUE))
            => \E b \in CallIds \ {c} :
                 SettlesIn(b) /\ SameAction(calls[b], calls[c])
       /\ (Settled(c) /\ FlagIn(store, calls[c]) = Bool(FALSE)
             /\ FlagIn(store', calls[c]) # Bool(FALSE))
            => \E b \in CallIds \ {c} :
                 StartsIn(b) /\ SameAction(calls'[b], calls[c])
    ]_vars

\* an execute is pending with its flag false, because another execute of
\* the same action completed in the meantime
C2_Witness ==
  \E c \in CallIds, b \in CallIds :
    /\ Awaiting(c) /\ Settled(b)
    /\ SameAction(calls[b], calls[c])
    /\ FlagIn(store, calls[c]) = Bool(FALSE)

(***************************************************************************)
(* C3                                                                      *)
(***************************************************************************)
\* what C3 says of a call whose HTTP call failed, but for how execute ends
ErrorPathOf(call) ==
  /\ Cardinality(EventsOf(call, "error")) = 1
  /\ \A i \in EventsOf(call, "error") :
       call.log[i].args = <<call.action.actionType, call.res.error,
                            call.action.resourceName.original>>
  /\ EventsOf(call, "success") = {}
  /\ PrimaryCommits(call) = {}
  /\ IsLoadingCommit(call, call.log[Len(call.log)], FALSE)

\* C3 as stated: when the HTTP call fails with E, execute resolves without
\* a result, the error callback got (ActionKind, E, resource name) exactly
\* once, no success callback, no primary mutation, loading flag false last.
C3_ErrorPath ==
  \A c \in CallIds :
    HttpFailed(c) => /\ ErrorPathOf(calls[c])
                     /\ calls[c].outcome = Resolved(Undefined)

\* C3 amended: as stated when the error callback returns; when the error
\* callback itself throws, execute rejects with what it threw, after the
\* loading flag was committed false.
C3_ErrorPathUnlessHandlerThrows ==
  \A c \in CallIds :
    HttpFailed(c) =>
      /\ ErrorPathOf(calls[c])
      /\ \A i \in EventsOf(calls[c], "error") :
           calls[c].outcome = IF calls[c].log[i].threw
                                THEN Rejected(Error("ErrorHandlerError"))
                                ELSE Resolved(Undefined)

C3_Witness ==
  \E c \in CallIds :
    /\ HttpFailed(c)
    /\ calls[c].outcome = Resolved(Undefined)
    /\ calls[c].action.handleActionError = "onError"

(***************************************************************************)
(* C4                                                                      *)
(***************************************************************************)
\* C4: when the HTTP call succeeds and the commit-state flag is true, the
\* call made exactly: loading true, the HTTP call, the primary mutation
\* with the state-mapped payload and the actionData, the success callback
\* with (ActionKind, state-mapped payload, resource name), loading false;
\* it returned the data-mapped payload and the error callback was not run.
C4_SuccessPath ==
  \A c \in CallIds :
    (HttpOk(c) /\ calls[c].action.commitState) =>
      LET call == calls[c]
          a == call.action
          mapped == ApplyMapper(call.req.stateMapper, call.res.data).value
          payload == [data |-> mapped, actionData |-> call.actionData]
      IN /\ call.log =
              <<CommitEvent(a.loadingMutation.name,
                            [data |-> Bool(TRUE), actionData |-> Undefined], None),
                HttpEvent(a.axios, call.req),
                CommitEvent(a.mutationName, payload, None),
                HandlerEvent("success", a.handleActionSuccess, a.actionType, mapped,
                             a.resourceName.original, FALSE),
                CommitEvent(a.loadingMutation.name,
                            [data |-> Bool(FALSE), actionData |-> Undefined], None)>>
         /\ call.outcome = Resolved(ApplyMapper(call.req.dataMapper, call.res.data).value)

(***************************************************************************)
(* C5                                                                      *)
(***************************************************************************)
\* C5: an execute call for which the error callback is invoked leaves the
\* collection state and the current-item state as they were; a call changes
\* nothing but its loading flag before its HTTP call settles.
C5_FailureLeavesResourceState ==
  [][\A c \in CallIds :
       /\ StartsIn(c) => ResourceStateIn(store', calls'[c]) = ResourceStateIn(store, calls'[c])
       /\ (SettlesIn(c) /\ EventsOf(calls'[c], "error") # {})
            => ResourceStateIn(store', calls[c]) = ResourceStateIn(store, calls[c])
    ]_vars

(***************************************************************************)
(* C6                                                                      *)
(***************************************************************************)
\* C6: whatever is configured on the template after create returned, a
\* module behaves as configured when it was created: its request
\* descriptors (id attribute of the update URL, custom definition), its
\* HTTP caller, commit-state flag and callbacks are those the template had
\* then, which are the fields create copied into the module's own object.
C6_ConfigurationFixedAtCreation ==
  \A c \in CallIds :
    Started(c) =>
      LET call == calls[c]
          a == call.action
          created == heap[modules[call.m].self]
          gen == GenerateAxiosRequestConfig(created, a.resourceName.original,
                                            a.actionType, call.actionData)
      IN /\ IF gen.thrown # None
              THEN call.outcome = Rejected(gen.thrown)
              ELSE call.req = gen.definition
         /\ a.axios = created.axios
         /\ a.commitState = created.commitState
         /\ a.handleActionSuccess = created.handleActionSuccess
         /\ a.handleActionError = created.handleActionError

(***************************************************************************)
(* C7                                                                      *)
(***************************************************************************)
\* a module descriptor without the identity of the closures it holds
Structure(m) ==
  [state |-> m.state,
   actions |-> m.actions,
   mutations |-> [k \in DOMAIN m.mutations |-> m.mutations[k].h],
   namespaced |-> m.namespaced,
   getters |-> m.getters]

CreatesIn == Len(modules') = Len(modules) + 1

\* C7: a create leaves the template as it was (resource descriptor and
\* every configuration field), leaves every module created before, its
\* object and its state as they were, and returns a descriptor that is a
\* function of the template's fields and of the resource alone: the same as
\* getModule on the template's fields with that resource, and structurally
\* identical to any module created before for the same resource from the
\* same configuration.
C7_CreateIndependent ==
  [][CreatesIn =>
       LET n == Len(modules')
           new == modules'[n]
       IN /\ heap'[Instance] = heap[Instance]
          /\ \A i \in 1..Len(modules) :
               /\ modules'[i] = modules[i]
               /\ store'[i] = store[i]
               /\ heap'[modules[i].self] = heap[modules[i].self]
               /\ new.self # modules[i].self
          /\ new.self # Instance
          /\ \E resource \in Resources :
               /\ Structure(new.module) =
                    Structure(GetModule([heap[Instance] EXCEPT
                                           !.resourceName = ResourceName(resource)], 0))
               /\ DOMAIN new.module.state \subseteq DOMAIN store'[n]
               /\ \A k \in DOMAIN new.module.state : store'[n][k] = new.module.state[k]
          /\ \A i \in 1..Len(modules) :
               heap'[new.self] = heap[modules[i].self]
                 => Structure(new.module) = Structure(modules[i].module)
    ]_vars

\* two modules were created for one resource from the same configuration,
\* the resource not being the template's own, after a module for another
C7_Witness ==
  /\ Len(modules) = 2
  /\ heap[modules[1].self] = heap[modules[2].self]
  /\ heap[modules[1].self].resourceName # heap[Instance].resourceName
  /\ nconfig > 0

(***************************************************************************)
(* C8                                                                      *)
(***************************************************************************)
ConfigurationErrors == {Error("InvalidAction"), Error("StateNotArray")}

\* the configuration errors raised while a call ran
RaisedIn(call) ==
  ({call.log[i].thrown : i \in EventsOf(call, "commit")} \cap ConfigurationErrors)
  \cup (IF call.action.actionType \in DefaultKinds THEN {} ELSE {Error("InvalidAction")})

\* C8: a configuration error raised while an action executes (unknown
\* ActionKind, collection state not a sequence in add-item or update-item)
\* is the error execute ends with; it is not handed to the error callback
\* and turned into a normal resolution.
C8_ConfigurationErrorsFatal ==
  \A c \in CallIds :
    Done(c) =>
      \A err \in RaisedIn(calls[c]) :
        /\ calls[c].outcome = Rejected(err)
        /\ \A i \in EventsOf(calls[c], "error") : calls[c].log[i].args[2] # err

(***************************************************************************)
(* C9                                                                      *)
(***************************************************************************)
\* C9 as stated: with the commit-state flag false no execute commits its
\* primary mutation (its only commits are of its loading flag); when its
\* HTTP call succeeded, the success callback is still invoked with the
\* state-mapped payload and the data-mapped payload is still returned.
C9_CommitStateOff ==
  \A c \in CallIds :
    (Started(c) /\ ~calls[c].action.commitState) =>
      LET call == calls[c]
      IN /\ PrimaryCommits(call) = {}
         /\ \A i \in EventsOf(call, "commit") :
              call.log[i].type = call.action.loadingMutation.name
         /\ HttpOk(c) =>
              /\ Cardinality(EventsOf(call, "success")) = 1
              /\ \A i \in EventsOf(call, "success") :
                   call.log[i].args =
                     <<call.action.actionType,
                       ApplyMapper(call.req.stateMapper, call.res.data).value,
                       call.action.resourceName.original>>
              /\ call.outcome =
                   Resolved(ApplyMapper(call.req.dataMapper, call.res.data).value)

\* C9 amended: with the commit-state flag false no execute commits its
\* primary mutation (its only commits are of its loading flag); when its
\* HTTP call succeeded and the state mapper returns, the success callback
\* is invoked once with the state-mapped payload, and the data-mapped
\* payload is returned when the success callback and the data mapper return
\* too.  When one of the three throws, the error callback is invoked once
\* with what was thrown and execute ends without a result, or rejected if
\* the error callback throws.
C9_CommitStateOffUnlessThrown ==
  \A c \in CallIds :
    (Started(c) /\ ~calls[c].action.commitState) =>
      LET call == calls[c]
      IN /\ PrimaryCommits(call) = {}
         /\ \A i \in EventsOf(call, "commit") :
              call.log[i].type = call.action.loadingMutation.name
         /\ HttpOk(c) =>
              LET mapped == ApplyMapper(call.req.stateMapper, call.res.data)
                  ret == ApplyMapper(call.req.dataMapper, call.res.data)
                  threw == \E i \in EventsOf(call, "success") : call.log[i].threw
                  thrown == IF mapped.thrown # None THEN mapped.thrown
                            ELSE IF threw THEN Error("SuccessHandlerError")
                            ELSE ret.thrown
              IN /\ IF mapped.thrown # None
                      THEN EventsOf(call, "success") = {}
                      ELSE /\ Cardinality(EventsOf(call, "success")) = 1
                           /\ \A i \in EventsOf(call, "success") :
                                call.log[i].args = <<call.action.actionType, mapped.value,
                                                     call.action.resourceName.original>>
                 /\ IF thrown = None
                      THEN /\ call.outcome = Resolved(ret.value)
                           /\ EventsOf(call, "error") = {}
                      ELSE /\ Cardinality(EventsOf(call, "error")) = 1
                           /\ \A i \in EventsOf(call, "error") :
                                /\ call.log[i].args[2] = thrown
                                /\ call.outcome =
                                     IF call.log[i].threw
                                       THEN Rejected(Error("ErrorHandlerError"))
                                       ELSE Resolved(Undefined)

\* with commitState false, a fetch succeeded with a collection and returned
\* it, and the collection state is still the initial null
C9_Witness ==
  \E c \in CallIds :
    /\ HttpOk(c)
    /\ ~calls[c].action.commitState
    /\ calls[c].action.actionType = "fetchItems"
    /\ calls[c].res.data = Arr(<<Obj(1, 1)>>)
    /\ calls[c].outcome = Resolved(Arr(<<Obj(1, 1)>>))
    /\ ResourceStateIn(store, calls[c]) = <<Null, Null>>

(***************************************************************************)
(* C10                                                                     *)
(***************************************************************************)
\* C10: an execute of an Action whose ActionKind is not one of the five
\* fails in the request-descriptor generation: it ends at once, rejected
\* with the generator's error, having issued no HTTP call, committed no
\* primary mutation and invoked no callback.
C10_UnknownActionKind ==
  \A c \in CallIds :
    (Started(c) /\ calls[c].action.actionType \notin DefaultKinds) =>
      /\ Done(c)
      /\ calls[c].outcome = Rejected(Error("InvalidAction"))
      /\ EventsOf(calls[c], "http") = {}
      /\ PrimaryCommits(calls[c]) = {}
      /\ EventsOf(calls[c], "success") = {}
      /\ EventsOf(calls[c], "error") = {}

C10_Witness ==
  \E c \in CallIds :
    /\ Done(c)
    /\ calls[c].action.actionType = "patchItem"
    /\ heap[calls[c].action.generateAxiosRequestConfig].customAPIDefinition = "customHook"

(***************************************************************************)
(* C11                                                                     *)
(***************************************************************************)
\* the collection state of the module of a call, in a store
CollectionIn(st, call) == ResourceStateIn(st, call)[1]

\* the id attribute the mutations of the module of a call read
IdAttributeOf(call) == heap[modules[call.m].self].idAttribute

\* the call settles in this step and its primary mutation is committed
CommitsIn(c, kind) ==
  /\ SettlesIn(c)
  /\ calls[c].action.actionType = kind
  /\ PrimaryCommits(calls'[c]) # {}

\* the primary commit of a call that made one
PrimaryCommitOf(call) == call.log[CHOOSE i \in PrimaryCommits(call) : TRUE]

\* C11: the delete-item mutation gets the original input data of the action;
\* on a collection that is a sequence it leaves exactly the elements whose id
\* attribute differs from the input data, in their order; on a collection
\* that is not a sequence it changes nothing; it signals no error.
C11_DeleteItem ==
  [][\A c \in CallIds :
       CommitsIn(c, "deleteItem") =>
         LET ev == PrimaryCommitOf(calls'[c])
             before == CollectionIn(store, calls[c])
             after == CollectionIn(store', calls[c])
             attr == IdAttributeOf(calls[c])
         IN /\ ev.actionData = calls[c].actionData
            /\ ev.thrown = None
            /\ IF before.t = "arr"
                 THEN after = Arr(SelectSeq(before.v,
                                   LAMBDA e : Get(e, attr) # calls[c].actionData))
                 ELSE after = before
    ]_vars

\* a delete of id 1 removed the first and the last of three fetched items
\* and kept the one between them, though the response had another body
C11_Witness ==
  \E c \in CallIds :
    /\ HttpOk(c)
    /\ calls[c].action.actionType = "deleteItem"
    /\ calls[c].actionData = Num(1)
    /\ calls[c].res.data = Obj(3, 1)
    /\ PrimaryCommits(calls[c]) # {}
    /\ CollectionIn(store, calls[c]) = Arr(<<Obj(2, 1)>>)

(***************************************************************************)
(* C12                                                                     *)
(***************************************************************************)
\* C12: the update-item mutation signals an error and changes nothing when
\* the collection state is not a sequence (the initial null included); on a
\* sequence it replaces, in place, the first element whose id attribute
\* equals that of the payload, with the length and every other element
\* unchanged, and changes nothing when no element matches.
C12_UpdateItem ==
  [][\A c \in CallIds :
       CommitsIn(c, "updateItem") =>
         LET ev == PrimaryCommitOf(calls'[c])
             before == CollectionIn(store, calls[c])
             after == CollectionIn(store', calls[c])
             attr == IdAttributeOf(calls[c])
         IN IF before.t # "arr"
              THEN ev.thrown = Error("StateNotArray") /\ after = before
              ELSE LET matches == {j \in 1..Len(before.v) :
                                     Get(before.v[j], attr) = Get(ev.data, attr)}
                   IN /\ ev.thrown = None
                      /\ after.t = "arr"
                      /\ Len(after.v) = Len(before.v)
                      /\ \A j \in 1..Len(before.v) :
                           after.v[j] =
                             IF j \in matches /\ \A k \in matches : j <= k
                               THEN ev.data
                               ELSE before.v[j]
    ]_vars

\* an update replaced the first of two fetched items of id 1 and left the
\* second as it was
C12_Witness ==
  \E c \in CallIds :
    /\ HttpOk(c)
    /\ calls[c].action.actionType = "updateItem"
    /\ PrimaryCommits(calls[c]) # {}
    /\ CollectionIn(store, calls[c]) = Arr(<<Obj(1, 2), Obj(2, 1), Obj(1, 3)>>)

(***************************************************************************)
(* C13                                                                     *)
(***************************************************************************)
\* C13: the add-item mutation makes the payload the only element of a
\* collection state that is absent (null or undefined); signals an error and
\* changes nothing when the collection state is present but not a sequence;
\* and otherwise appends the payload after the existing elements.
C13_AddItem ==
  [][\A c \in CallIds :
       CommitsIn(c, "createItem") =>
         LET ev == PrimaryCommitOf(calls'[c])
             before == CollectionIn(store, calls[c])
             after == CollectionIn(store', calls[c])
         IN IF Nullish(before)
              THEN ev.thrown = None /\ after = Arr(<<ev.data>>)
            ELSE IF before.t # "arr"
              THEN ev.thrown = Error("StateNotArray") /\ after = before
            ELSE ev.thrown = None /\ after = Arr(Append(before.v, ev.data))
    ]_vars

(***************************************************************************)
(* C14                                                                     *)
(***************************************************************************)
\* the method, the URL and the body section 4.2 gives for an action kind
DefaultRequest(resource, kind, inputData, idAttribute) ==
  CASE kind = "fetchItems" ->
         [method |-> "GET", url |-> "/" \o resource, data |-> Undefined]
    [] kind = "getItem" ->
         [method |-> "GET", url |-> "/" \o resource \o "/" \o Str(inputData),
          data |-> Undefined]
    [] kind = "createItem" ->
         [method |-> "POST", url |-> "/" \o resource, data |-> inputData]
    [] kind = "deleteItem" ->
         [method |-> "DELETE", url |-> "/" \o resource \o "/" \o Str(inputData),
          data |-> Undefined]
    [] kind = "updateItem" ->
         [method |-> "PUT",
          url |-> "/" \o resource \o "/" \o Str(Get(inputData, idAttribute)),
          data |-> inputData]

\* the default descriptor: the request, no query params, identity mappers
DefaultDescriptor(resource, kind, inputData, idAttribute) ==
  [params |-> Undefined, dataMapper |-> "identity", stateMapper |-> "identity"]
    @@ DefaultRequest(resource, kind, inputData, idAttribute)

\* the object whose fields the generator of a call reads
GeneratorOf(call) == heap[call.action.generateAxiosRequestConfig]

\* the execute of one of the five kinds starts in this step with an input
\* its default descriptor is defined for (update-item reads an attribute of
\* its input)
GeneratesIn(c) ==
  /\ StartsIn(c)
  /\ calls'[c].action.actionType \in DefaultKinds
  /\ calls'[c].action.actionType = "updateItem" => ~Nullish(calls'[c].actionData)

\* C14: with no custom hook, whatever the resource and the input, the
\* descriptor generated for an execute is GET /{resource}, GET
\* /{resource}/{input}, POST /{resource} with the input as body, DELETE
\* /{resource}/{input}, or PUT /{resource}/{input[idAttribute]} with the input
\* as body, with identity mappers, and the HTTP call is issued with that
\* method, url and body.
C14_DefaultDescriptors ==
  [][\A c \in CallIds :
       (GeneratesIn(c) /\ GeneratorOf(calls'[c]).customAPIDefinition = "null") =>
         LET call == calls'[c]
             a == call.action
             expected == DefaultDescriptor(a.resourceName.original, a.actionType,
                                           call.actionData, GeneratorOf(call).idAttribute)
         IN /\ call.pc = "awaiting"
            /\ call.req = expected
            /\ call.log[Len(call.log)] =
                 [e |-> "http", axios |-> a.axios, method |-> expected.method,
                  url |-> expected.url, params |-> Undefined, data |-> expected.data]
    ]_vars

\* an update of a post was requested as PUT /posts/2, the id attribute
\* being "key", with the item as body
C14_Witness ==
  \E c \in CallIds :
    /\ Started(c)
    /\ calls[c].action.actionType = "updateItem"
    /\ calls[c].req # Undefined
    /\ calls[c].req.method = "PUT"
    /\ calls[c].req.url = "/posts/2"
    /\ calls[c].req.data = Obj(1, 2)
    /\ calls[c].req.stateMapper = "identity"

(***************************************************************************)
(* C15                                                                     *)
(***************************************************************************)
\* C15: when a custom definition is configured, an execute calls it with
\* (default descriptor, resource name, ActionKind, inputData) and what it
\* returns is the descriptor of the whole call: the HTTP call is issued with
\* its method, url, params and body; the payload committed and the payload
\* given to the success callback are the response mapped by its state
\* mapper; the value returned is the response mapped by its data mapper.
C15_CustomDefinition ==
  [][\A c \in CallIds :
       /\ (GeneratesIn(c) /\ GeneratorOf(calls'[c]).customAPIDefinition # "null") =>
            LET call == calls'[c]
                a == call.action
                res == a.resourceName.original
                returned == CustomAPIDefinition(
                              DefaultDescriptor(res, a.actionType, call.actionData,
                                                GeneratorOf(call).idAttribute),
                              res, a.actionType, call.actionData)
            IN /\ call.pc = "awaiting"
               /\ call.req = returned
               /\ call.log[Len(call.log)] =
                    [e |-> "http", axios |-> a.axios, method |-> returned.method,
                     url |-> returned.url, params |-> returned.params,
                     data |-> returned.data]
       /\ (SettlesIn(c) /\ calls'[c].res.ok /\ calls'[c].req.params # Undefined) =>
            LET call == calls'[c]
                state == ApplyMapper(call.req.stateMapper, call.res.data)
                data == ApplyMapper(call.req.dataMapper, call.res.data)
            IN /\ \A i \in PrimaryCommits(call) : call.log[i].data = state.value
               /\ \A i \in EventsOf(call, "success") : call.log[i].args[2] = state.value
               /\ EventsOf(call, "error") = {} => call.outcome = Resolved(data.value)
    ]_vars

\* under the custom definition a fetch was requested from /api/users with
\* params, stored the first item of the response and returned its key
C15_Witness ==
  \E c \in CallIds :
    /\ HttpOk(c)
    /\ calls[c].action.actionType = "fetchItems"
    /\ calls[c].req.url = "/api/users"
    /\ calls[c].req.params # Undefined
    /\ calls[c].res.data = Arr(<<Obj(1, 1)>>)
    /\ CollectionIn(store, calls[c]) = Obj(1, 1)
    /\ calls[c].outcome = Resolved(Num(1))

(***************************************************************************)
(* C16                                                                     *)
(***************************************************************************)
\* the names of the five default mutations and of the five loading-flag
\* mutations of a resource, with the handler and the flag each must have
DefaultMutationNames(resource) ==
  IF resource = "users"
    THEN [SET_USERS |-> "setItems", SET_CURRENT_USER |-> "setCurrentItem",
          ADD_USER |-> "addItem", UPDATE_USER |-> "updateItem",
          DELETE_USER |-> "deleteItem"]
    ELSE [SET_POSTS |-> "setItems", SET_CURRENT_POST |-> "setCurrentItem",
          ADD_POST |-> "addItem", UPDATE_POST |-> "updateItem",
          DELETE_POST |-> "deleteItem"]

LoadingMutationNames(resource) ==
  IF resource = "users"
    THEN [SET_FETCHING_USERS |-> "fetchingUsers", SET_GETTING_USER |-> "gettingUser",
          SET_CREATING_USER |-> "creatingUser", SET_UPDATING_USER |-> "updatingUser",
          SET_DELETING_USER |-> "deletingUser"]
    ELSE [SET_FETCHING_POSTS |-> "fetchingPosts", SET_GETTING_POST |-> "gettingPost",
          SET_CREATING_POST |-> "creatingPost", SET_UPDATING_POST |-> "updatingPost",
          SET_DELETING_POST |-> "deletingPost"]

\* the names of the five default actions of a resource, with their kinds
DefaultActionNames(resource) ==
  IF resource = "users"
    THEN [fetchUsers |-> "fetchItems", getUser |-> "getItem", createUser |-> "createItem",
          updateUser |-> "updateItem", deleteUser |-> "deleteItem"]
    ELSE [fetchPosts |-> "fetchItems", getPost |-> "getItem", createPost |-> "createItem",
          updatePost |-> "updateItem", deletePost |-> "deleteItem"]

\* the state keys of a resource: collection, current item, loading flags
DefaultStateKeys(resource) ==
  {LoadingMutationNames(resource)[n] : n \in DOMAIN LoadingMutationNames(resource)}
  \cup (IF resource = "users" THEN {"users", "currentUser"} ELSE {"posts", "currentPost"})

\* C16: in the module a create builds, every key of the additional state
\* declared on the template holds the declared value and every additional
\* action is the declared one, default of the same name or not; the default
\* state keys and actions that are not declared again are the defaults; and
\* the five default mutations and the five loading-flag mutations are there
\* whatever was declared.
C16_MergePrecedence ==
  [][CreatesIn =>
       LET new == modules'[Len(modules')].module
           declared == heap[Instance]
           resource == heap'[modules'[Len(modules')].self].resourceName.original
           names == DefaultMutationNames(resource)
           loading == LoadingMutationNames(resource)
           defaults == DefaultActionNames(resource)
       IN /\ DOMAIN new.state = DefaultStateKeys(resource) \cup DOMAIN declared.additionalState
          /\ \A k \in DOMAIN new.state :
               new.state[k] = IF k \in DOMAIN declared.additionalState
                                THEN declared.additionalState[k]
                                ELSE Null
          /\ DOMAIN new.actions = DOMAIN defaults \cup DOMAIN declared.additionalActions
          /\ \A k \in DOMAIN new.actions :
               IF k \in DOMAIN declared.additionalActions
                 THEN new.actions[k] = declared.additionalActions[k]
                 ELSE /\ new.actions[k].fn = "execute"
                      /\ new.actions[k].action.actionType = defaults[k]
          /\ \A n \in DOMAIN names :
               /\ n \in DOMAIN new.mutations
               /\ new.mutations[n].h = names[n]
          /\ \A n \in DOMAIN loading :
               /\ n \in DOMAIN new.mutations
               /\ new.mutations[n] = [h |-> "loading", state |-> loading[n]]
    ]_vars

\* a module for users was built with its collection key and its fetch
\* action declared again by the user
C16_Witness ==
  \E i \in 1..Len(modules) :
    /\ "users" \in DOMAIN modules[i].module.state
    /\ modules[i].module.state["users"] = Arr(<<>>)
    /\ "fetchUsers" \in DOMAIN modules[i].module.actions
    /\ modules[i].module.actions["fetchUsers"].fn = "custom"
    /\ "SET_USERS" \in DOMAIN modules[i].module.mutations

(***************************************************************************)
(* C17                                                                     *)
(***************************************************************************)
\* an execute of the action with a loading mutation has started on a module
StartedOn(m, mutation) ==
  \E c \in CallIds :
    /\ Started(c)
    /\ calls[c].m = m
    /\ calls[c].action.loadingMutation.name = mutation

\* C17: with no additional state declared, the state of a built module is
\* the collection key (lowercased plural), the current-item key ("current"
\* and the singular) and the five loading-flag keys, all null; the store
\* holds them, the collection and the current item null as long as no
\* execute ran on the module, and each loading flag null until an execute of
\* its action has started and true or false from then on.
C17_InitialState ==
  \A m \in 1..Len(modules) :
    LET resource == heap[modules[m].self].resourceName.original
        flags == LoadingMutationNames(resource)
        items == IF resource = "users" THEN "users" ELSE "posts"
        current == IF resource = "users" THEN "currentUser" ELSE "currentPost"
    IN /\ heap[modules[m].self].additionalState = EmptyObject
       /\ DOMAIN modules[m].module.state = DefaultStateKeys(resource)
       /\ \A k \in DefaultStateKeys(resource) :
            /\ modules[m].module.state[k] = Null
            /\ k \in DOMAIN store[m]
       /\ (\A c \in CallIds : Started(c) => calls[c].m # m) =>
            store[m][items] = Null /\ store[m][current] = Null
       /\ \A n \in DOMAIN flags :
            IF StartedOn(m, n)
              THEN store[m][flags[n]] \in {Bool(TRUE), Bool(FALSE)}
              ELSE store[m][flags[n]] = Null

\* on a module for posts a create is pending with its flag true and a
\* delete has completed with its flag false; the fetch flag is still null
C17_Witness ==
  \E m \in 1..Len(modules) :
    /\ DOMAIN modules[m].module.state = DefaultStateKeys("posts")
    /\ StartedOn(m, "SET_CREATING_POST")
    /\ StartedOn(m, "SET_DELETING_POST")
    /\ store[m]["creatingPost"] = Bool(TRUE)
    /\ store[m]["deletingPost"] = Bool(FALSE)
    /\ store[m]["fetchingPosts"] = Null

(***************************************************************************)
(* C18                                                                     *)
(***************************************************************************)
\* C18: every execute call that has completed invoked exactly one callback,
\* once: the success callback if its HTTP call succeeded, the error callback
\* if it failed; none invoked both and none invoked neither.
C18_CallbackExclusive ==
  \A c \in CallIds :
    Done(c) =>
      LET success == Cardinality(EventsOf(calls[c], "success"))
          error == Cardinality(EventsOf(calls[c], "error"))
      IN /\ success + error = 1
         /\ HttpOk(c) => success = 1
         /\ HttpFailed(c) => error = 1

(***************************************************************************)
(* C19                                                                     *)
(***************************************************************************)
\* the state key the primary mutation of an action kind writes
TargetOf(call) ==
  LET o == heap[modules[call.m].self]
  IN IF call.action.actionType = "getItem"
       THEN States(o).currentItem
       ELSE States(o).items

\* C19: a step of an execute call (its start or its end) commits only the
\* loading-flag mutation and the primary mutation of its action and changes
\* no state key but its own loading flag and, for get-item, the current
\* item, for the other kinds, the collection: the loading flags of the
\* other actions, the current item under fetch, create, update and delete,
\* the collection under get-item and the state of every other module stay
\* as they were, whatever other calls are pending.
C19_Frame ==
  [][\A c \in CallIds :
       (StartsIn(c) \/ SettlesIn(c)) =>
         LET call == calls'[c]
             own == call.action.loadingMutation.state
         IN /\ \A i \in EventsOf(call, "commit") :
                 call.log[i].type \in {call.action.loadingMutation.name,
                                       call.action.mutationName}
            /\ DOMAIN store'[call.m] = DOMAIN store[call.m]
            /\ \A k \in DOMAIN store[call.m] \ {own, TargetOf(call)} :
                 store'[call.m][k] = store[call.m][k]
            /\ StartsIn(c) => store'[call.m][TargetOf(call)] = store[call.m][TargetOf(call)]
            /\ \A n \in 1..Len(store) : n # call.m => store'[n] = store[n]
    ]_vars

\* a fetch and a get-item have both succeeded on one module: the collection
\* is what the fetch stored, the current item what the get-item stored, and
\* the loading flags of the three other actions are still null
C19_Witness ==
  \E c \in CallIds, b \in CallIds :
    /\ HttpOk(c) /\ HttpOk(b) /\ calls[c].m = calls[b].m
    /\ calls[c].action.actionType = "fetchItems"
    /\ calls[b].action.actionType = "getItem"
    /\ calls[c].res.data = Arr(<<Obj(1, 1)>>)
    /\ calls[b].res.data = Obj(1, 2)
    /\ ResourceStateIn(store, calls[c]) = <<Arr(<<Obj(1, 1)>>), Obj(1, 2)>>
    /\ \A k \in {"creating", "updating", "deleting"} :
         Read(store[calls[c].m],
              k \o heap[modules[calls[c].m].self].resourceName.singular) = Null

====
